---- MODULE Spec2Model ----
(***************************************************************************)
(* Model of clexbrowser's undo/redo CommandManager over the definitions    *)
(* store of DatabaseManager (command_manager.py, database_manager.py) and  *)
(* of the log-file parser parse_log_file (database_creator.py).            *)
(***************************************************************************)
EXTENDS Integers, Sequences, FiniteSets, TLC

(* ------------------------------ bounds --------------------------------- *)
\* Number of command objects that may be constructed and executed successfully.
MaxCmds == 3
\* Largest configured max_history drawn at construction.
MaxHist == 2
\* Cap on the clex_definitions rows one device may accumulate.
MaxRows == 2

DeviceIds == {1}
Payloads == {"p", "q"}

(* ------------------------- DatabaseManager ----------------------------- *)
\* The store: clex_definitions rows per device_id (in rowid order) and the
\* devices.has_clex_definition flag.
\* get_clex_definition: fetchone() of the rows of the device, None if absent.
get_clex_definition(db, d) ==
    IF Len(db.rows[d]) = 0 THEN "None" ELSE db.rows[d][1]

\* update_clex_definition: UPDATE every row of the device; True iff rowcount > 0.
update_clex_definition(db, d, data) ==
    [db  |-> [db EXCEPT !.rows[d] = [i \in 1..Len(db.rows[d]) |-> data]],
     ret |-> Len(db.rows[d]) > 0]

\* add_clex_definition: set the flag, INSERT one row; always True.
add_clex_definition(db, d, data) ==
    [db  |-> [db EXCEPT !.rows[d] = Append(db.rows[d], data), !.flag[d] = TRUE],
     ret |-> TRUE]

\* delete_clex_definition: DELETE every row of the device, clear the flag; always True.
delete_clex_definition(db, d) ==
    [db  |-> [db EXCEPT !.rows[d] = <<>>, !.flag[d] = FALSE],
     ret |-> TRUE]

(* ------------------------------ Commands ------------------------------- *)
\* A command object: uid is the object's identity, old/new the captured payloads.
AddClexDefinitionCommand(uid, d, data) ==
    [uid |-> uid, kind |-> "Add", device_id |-> d, old |-> "None", new |-> data]

EditClexDefinitionCommand(uid, d, old_data, new_data) ==
    [uid |-> uid, kind |-> "Edit", device_id |-> d, old |-> old_data, new |-> new_data]

DeleteClexDefinitionCommand(uid, d, data) ==
    [uid |-> uid, kind |-> "Delete", device_id |-> d, old |-> data, new |-> "None"]

\* Command.execute of the three variants.
CommandExecute(c, db) ==
    CASE c.kind = "Add"    -> add_clex_definition(db, c.device_id, c.new)
      [] c.kind = "Edit"   -> update_clex_definition(db, c.device_id, c.new)
      [] c.kind = "Delete" -> delete_clex_definition(db, c.device_id)

\* Command.undo of the three variants.
CommandUndo(c, db) ==
    CASE c.kind = "Add"    -> delete_clex_definition(db, c.device_id)
      [] c.kind = "Edit"   -> update_clex_definition(db, c.device_id, c.old)
      [] c.kind = "Delete" -> add_clex_definition(db, c.device_id, c.old)

\* Command.get_description: the default description of each variant.
get_description(c) ==
    CASE c.kind = "Add"    -> "Add CLEX Definition"
      [] c.kind = "Edit"   -> "Edit CLEX Definition"
      [] c.kind = "Delete" -> "Delete CLEX Definition"

(* --------------------------- CommandManager ---------------------------- *)
\* CommandManager fields, the store, and the observers of the last call:
\* next_uid numbers command objects, last records the last call and its
\* result, pre/post/phase follow an execute-all / undo-all / redo-all run,
\* base is the store with every command applied that the size limit dropped
\* from the history since the history was last empty.
VARIABLES history, current_index, max_history, store,
          next_uid, last, pre, post, phase, base

\* parse_log_file locals: the input read so far (lines), the loop position,
\* the three result collections and the scanner state; block_start and
\* def_src record the input position of the open block and of each
\* definition's block.
VARIABLES lines, line_index, pc, technologies, devices, clex_definitions,
          current_tech, current_tech_version, current_tech_path,
          current_device, current_device_tech, in_device_block, current_block,
          current_folder_path, current_file_name, block_start, def_src

cmvars == <<history, current_index, max_history, store, next_uid, last, pre, post, phase, base>>

pvars == <<lines, line_index, pc, technologies, devices, clex_definitions,
           current_tech, current_tech_version, current_tech_path,
           current_device, current_device_tech, in_device_block, current_block,
           current_folder_path, current_file_name, block_start, def_src>>

vars == <<cmvars, pvars>>

\* The parser at rest (not used by the command manager).
ParserIdle ==
    /\ lines = <<>> /\ line_index = 0 /\ pc = "idle"
    /\ technologies = <<>> /\ devices = <<>> /\ clex_definitions = <<>>
    /\ current_tech = "None" /\ current_tech_version = "None" /\ current_tech_path = "None"
    /\ current_device = "None" /\ current_device_tech = "None"
    /\ in_device_block = FALSE /\ current_block = <<>>
    /\ current_folder_path = "None" /\ current_file_name = "None"
    /\ block_start = 0 /\ def_src = <<>>

\* history[i] of the code (0-based) is history[i + 1] here.
At(h, i) == h[i + 1]

\* Python slice h[:n] for n >= 0.
Prefix(h, n) == SubSeq(h, 1, IF n < Len(h) THEN n ELSE Len(h))

\* Python slice h[-n:]: the last n entries (the whole list when n = 0).
LastN(h, n) ==
    IF n = 0 \/ n >= Len(h) THEN h ELSE SubSeq(h, Len(h) - n + 1, Len(h))

can_undo == current_index >= 0

can_redo == current_index < Len(history) - 1

\* Variant of Truncated that keeps the undone commands.
Truncated_NoCut == history

\* "Clear any redoable commands": the first statement of execute_command.
Truncated ==
    IF current_index < Len(history) - 1 THEN Prefix(history, current_index + 1)
                                        ELSE history

\* Variant of Limited that keeps the oldest max_history entries.
Limited_KeepOldest(h) == IF Len(h) > max_history THEN Prefix(h, max_history) ELSE h

\* "Limit history size": the list kept after appending.
Limited(h) == IF Len(h) > max_history THEN LastN(h, max_history) ELSE h

\* The commands a caller can build against the current store: Add with any
\* payload; Delete with the payload read from the store; Edit with the old
\* payload read from the store (any dict when the device has no definition).
NewCommands ==
    LET uid == next_uid IN
    UNION { {AddClexDefinitionCommand(uid, d, x) : x \in Payloads}
            \cup (IF get_clex_definition(store, d) = "None"
                  THEN {EditClexDefinitionCommand(uid, d, o, n) : o \in Payloads, n \in Payloads}
                  ELSE {EditClexDefinitionCommand(uid, d, get_clex_definition(store, d), n) : n \in Payloads}
                       \cup {DeleteClexDefinitionCommand(uid, d, get_clex_definition(store, d))})
          : d \in DeviceIds }

RowsOk(db) == \A d \in DOMAIN db.rows : Len(db.rows[d]) <= MaxRows

Init ==
    /\ history = <<>>
    /\ current_index = -1
    /\ max_history \in 1..MaxHist
    /\ \E r \in [DeviceIds -> {<<>>} \cup {<<x>> : x \in Payloads}] :
          store = [rows |-> r, flag |-> [d \in DeviceIds |-> r[d] # <<>>]]
    /\ next_uid = 1
    /\ last = [op |-> "init", ret |-> "None", uid |-> 0, i0 |-> -1, n0 |-> 0]
    /\ pre = store
    /\ post = store
    /\ phase = "exec"
    /\ base = store
    /\ ParserIdle

\* execute_command(command), command.execute() returning True or False.
ExecuteCommand(c) ==
    LET r  == CommandExecute(c, store)
        h2 == Append(Truncated, c)
    IN
    /\ next_uid <= MaxCmds
    /\ RowsOk(r.db)
    /\ IF r.ret
       THEN /\ history' = Limited(h2)
            /\ current_index' = Len(Limited(h2)) - 1
            /\ next_uid' = next_uid + 1
       ELSE /\ history' = Truncated
            /\ UNCHANGED <<current_index, next_uid>>
    /\ store' = r.db
    /\ last' = [op |-> "execute", ret |-> IF r.ret THEN "True" ELSE "False",
                uid |-> c.uid, i0 |-> current_index, n0 |-> Len(history)]
    /\ phase' = IF phase = "exec" /\ r.ret THEN "exec" ELSE "off"
    /\ post' = r.db
    /\ base' = IF r.ret /\ Len(h2) > max_history THEN CommandExecute(h2[1], base).db ELSE base
    /\ UNCHANGED <<max_history, pre>>
    /\ UNCHANGED pvars

\* execute_command(command), command.execute() raising sqlite3.Error.
ExecuteCommandRaises(c) ==
    /\ next_uid <= MaxCmds
    /\ history' = Truncated
    /\ last' = [op |-> "execute", ret |-> "raised",
                uid |-> c.uid, i0 |-> current_index, n0 |-> Len(history)]
    /\ phase' = "off"
    /\ UNCHANGED <<current_index, max_history, store, next_uid, pre, post, base>>
    /\ UNCHANGED pvars

\* undo() with nothing to undo.
UndoNothing ==
    /\ ~can_undo
    /\ last' = [op |-> "undo", ret |-> "None", uid |-> 0,
                i0 |-> current_index, n0 |-> Len(history)]
    /\ phase' = IF phase \in {"exec", "undo"} THEN "undo" ELSE "off"
    /\ UNCHANGED <<history, current_index, max_history, store, next_uid, pre, post, base>>
    /\ UNCHANGED pvars

\* Variant of Undo that moves the cursor whatever command.undo() returns.
Undo_AlwaysDecrement ==
    /\ can_undo
    /\ LET command == At(history, current_index)
           r == CommandUndo(command, store)
       IN
       /\ RowsOk(r.db)
       /\ store' = r.db
       /\ current_index' = current_index - 1
       /\ last' = [op |-> "undo",
                   ret |-> IF r.ret THEN get_description(command) ELSE "None",
                   uid |-> command.uid, i0 |-> current_index, n0 |-> Len(history)]
    /\ phase' = IF phase \in {"exec", "undo"} THEN "undo" ELSE "off"
    /\ UNCHANGED <<history, max_history, next_uid, pre, post, base>>
    /\ UNCHANGED pvars

\* Variant of Undo that also removes the undone command from the history.
Undo_Pops ==
    /\ can_undo
    /\ LET command == At(history, current_index)
           r == CommandUndo(command, store)
       IN
       /\ RowsOk(r.db)
       /\ store' = r.db
       /\ current_index' = IF r.ret THEN current_index - 1 ELSE current_index
       /\ history' = IF r.ret THEN Prefix(history, current_index) ELSE history
       /\ last' = [op |-> "undo",
                   ret |-> IF r.ret THEN get_description(command) ELSE "None",
                   uid |-> command.uid, i0 |-> current_index, n0 |-> Len(history)]
    /\ phase' = IF phase \in {"exec", "undo"} THEN "undo" ELSE "off"
    /\ UNCHANGED <<max_history, next_uid, pre, post, base>>
    /\ UNCHANGED pvars

\* undo(), command.undo() returning True or False.
Undo ==
    /\ can_undo
    /\ LET command == At(history, current_index)
           r == CommandUndo(command, store)
       IN
       /\ RowsOk(r.db)
       /\ store' = r.db
       /\ current_index' = IF r.ret THEN current_index - 1 ELSE current_index
       /\ last' = [op |-> "undo",
                   ret |-> IF r.ret THEN get_description(command) ELSE "None",
                   uid |-> command.uid, i0 |-> current_index, n0 |-> Len(history)]
    /\ phase' = IF phase \in {"exec", "undo"} THEN "undo" ELSE "off"
    /\ UNCHANGED <<history, max_history, next_uid, pre, post, base>>
    /\ UNCHANGED pvars

\* undo(), command.undo() raising sqlite3.Error.
UndoRaises ==
    /\ can_undo
    /\ last' = [op |-> "undo", ret |-> "raised", uid |-> At(history, current_index).uid,
                i0 |-> current_index, n0 |-> Len(history)]
    /\ phase' = "off"
    /\ UNCHANGED <<history, current_index, max_history, store, next_uid, pre, post, base>>
    /\ UNCHANGED pvars

\* redo() with nothing to redo.
RedoNothing ==
    /\ ~can_redo
    /\ last' = [op |-> "redo", ret |-> "None", uid |-> 0,
                i0 |-> current_index, n0 |-> Len(history)]
    /\ phase' = IF (phase = "undo" /\ ~can_undo) \/ phase = "redo" THEN "redo" ELSE "off"
    /\ UNCHANGED <<history, current_index, max_history, store, next_uid, pre, post, base>>
    /\ UNCHANGED pvars

\* Variant of Redo that does not revert the index when execute() returns False.
Redo_NoRevert ==
    /\ can_redo
    /\ LET command == At(history, current_index + 1)
           r == CommandExecute(command, store)
       IN
       /\ RowsOk(r.db)
       /\ store' = r.db
       /\ current_index' = current_index + 1
       /\ last' = [op |-> "redo",
                   ret |-> IF r.ret THEN get_description(command) ELSE "None",
                   uid |-> command.uid, i0 |-> current_index, n0 |-> Len(history)]
    /\ phase' = IF (phase = "undo" /\ ~can_undo) \/ phase = "redo" THEN "redo" ELSE "off"
    /\ UNCHANGED <<history, max_history, next_uid, pre, post, base>>
    /\ UNCHANGED pvars

\* redo(), command.execute() returning True or False.
Redo ==
    /\ can_redo
    /\ LET command == At(history, current_index + 1)
           r == CommandExecute(command, store)
       IN
       /\ RowsOk(r.db)
       /\ store' = r.db
       /\ current_index' = IF r.ret THEN current_index + 1 ELSE (current_index + 1) - 1
       /\ last' = [op |-> "redo",
                   ret |-> IF r.ret THEN get_description(command) ELSE "None",
                   uid |-> command.uid, i0 |-> current_index, n0 |-> Len(history)]
    /\ phase' = IF (phase = "undo" /\ ~can_undo) \/ phase = "redo" THEN "redo" ELSE "off"
    /\ UNCHANGED <<history, max_history, next_uid, pre, post, base>>
    /\ UNCHANGED pvars

\* redo(), command.execute() raising sqlite3.Error after the index was advanced.
RedoRaises ==
    /\ can_redo
    /\ current_index' = current_index + 1
    /\ last' = [op |-> "redo", ret |-> "raised", uid |-> At(history, current_index + 1).uid,
                i0 |-> current_index, n0 |-> Len(history)]
    /\ phase' = "off"
    /\ UNCHANGED <<history, max_history, store, next_uid, pre, post, base>>
    /\ UNCHANGED pvars

\* Variant of ClearHistory that empties the history and keeps the cursor.
ClearHistory_KeepsCursor ==
    /\ history' = <<>>
    /\ last' = [op |-> "clear", ret |-> "None", uid |-> 0,
                i0 |-> current_index, n0 |-> Len(history)]
    /\ pre' = store
    /\ post' = store
    /\ base' = store
    /\ phase' = "exec"
    /\ UNCHANGED <<current_index, max_history, store, next_uid>>
    /\ UNCHANGED pvars

\* clear_history().
ClearHistory ==
    /\ history' = <<>>
    /\ current_index' = -1
    /\ last' = [op |-> "clear", ret |-> "None", uid |-> 0,
                i0 |-> current_index, n0 |-> Len(history)]
    /\ pre' = store
    /\ post' = store
    /\ base' = store
    /\ phase' = "exec"
    /\ UNCHANGED <<max_history, store, next_uid>>
    /\ UNCHANGED pvars

ExecuteCommandCall == \E c \in NewCommands : ExecuteCommand(c)

ExecuteCommandRaisesCall == \E c \in NewCommands : ExecuteCommandRaises(c)

Next ==
    \/ ExecuteCommandCall
    \/ ExecuteCommandRaisesCall
    \/ UndoNothing
    \/ Undo
    \/ UndoRaises
    \/ RedoNothing
    \/ Redo
    \/ RedoRaises
    \/ ClearHistory

Spec == Init /\ [][Next]_vars

\* The calls in which every command operation reports success or failure by
\* its return value.
ReturnNext ==
    \/ ExecuteCommandCall
    \/ UndoNothing
    \/ Undo
    \/ RedoNothing
    \/ Redo
    \/ ClearHistory

ReturnSpec == Init /\ [][ReturnNext]_vars

(* --------------------------- parse_log_file ---------------------------- *)
\* Input lines are drawn from a catalogue of log lines; [k, v] stands for
\*   blank      ""
\*   tech       "Technology: <v>"
\*   latestdir  "The latest directory is: <v>/models"
\*   devlist    "List of all devices: <v>"
\*   open       "inline subckt <v> (a b)"
\*   folder     "Folder Path: <v>"      (v may be empty)
\*   file       "File Name: <v>"        (v may be empty)
\*   assertexpr "assert clexvw_v expr=\"V(a,b)\" min=-1 max=1"
\*   assertonly "assert vmax"
\*   note       "parameters w=1u"
\*   searching  "Searching in <v>"
\* Longest input, in lines.
MaxLines == 9

Line(k, v) == [k |-> k, v |-> v]

EOF == Line("EOF", "")

TechNames == {"T1"}
\* The k-th "inline subckt" line of an input names the k-th of these devices;
\* an input has no more blocks than there are names.
DeviceOrder == <<"A", "B">>
DeviceListTexts == {"A"}

\* Lines that may follow an "inline subckt" line inside its block.
BlockLines ==
    {Line("folder", "/x"), Line("folder", ""), Line("file", "f"),
     Line("assertexpr", ""), Line("assertonly", "")}

\* Lines that may appear outside every block, each at most once in an input.
OutsideLines == {Line("folder", "/x"), Line("file", "f")}

\* Variant of tech_match that matches no line.
tech_match_Never(l) == FALSE

\* re.search(r'The latest directory is: (.*?)/models', line)
tech_match(l) == l.k = "latestdir"

\* re.search(r'Technology: (\w+)', line)
tech_name_match(l) == l.k = "tech"

\* re.search(r'List of all devices: (.*)', line)
devices_match(l) == l.k = "devlist"

\* re.search(r'inline subckt (\w+)', line)
inline_match(l) == l.k = "open"

\* line.strip() == ""
IsBlank(l) == l.k = "blank"

\* re.search(r'/v([\d\.]+)', path): the version of a directory path, None if absent.
version_match(path) ==
    CASE path = "/pdk/v1.2" -> "1.2"
      [] path = "/pdk/v2.0" -> "2.0"
      [] OTHER -> "None"

\* Variant of Split that does not split the text.
Split_Whole(text) == <<text>>

\* device_list_text.split(', ') with each token stripped.
Split(text) ==
    CASE text = "A"          -> <<"A">>
      [] text = "A, B"       -> <<"A", "B">>
      [] text = "B, , B"     -> <<"B", "", "B">>
      [] text = "dev1, dev2" -> <<"dev1", "dev2">>
      [] text = "dev2, , dev2,  dev1" -> <<"dev2", "", "dev2", "dev1">>
      [] OTHER               -> <<text>>

\* Python truthiness of an optional string.
Truthy(x) == x # "None" /\ x # ""

\* The catalogue values that contain "clex" (all of them end with it).
ClexValues == {"f.clex", "/lib/clex"}

\* "assert" in block_line or "clex" in block_line.lower()
HasAssertOrClex(l) == l.k \in {"assertexpr", "assertonly"} \/ l.v \in ClexValues

\* block_line.strip().startswith("Searching in") or ...startswith("Technology:")
IsSectionMarker(l) == l.k \in {"searching", "tech"}

\* The clean-up loop over current_block: keep the opening line, the
\* Folder Path / File Name lines and, once inside_def, the assert/clex
\* lines; stop at a section marker.
RECURSIVE CleanFrom(_, _, _, _)
CleanFrom(block, i, inside_def, cleaned) ==
    IF i > Len(block) THEN cleaned
    ELSE LET bl == block[i] IN
         IF bl.k = "open" THEN CleanFrom(block, i + 1, TRUE, Append(cleaned, bl))
         ELSE IF bl.k \in {"folder", "file"} THEN CleanFrom(block, i + 1, inside_def, Append(cleaned, bl))
         ELSE IF inside_def /\ HasAssertOrClex(bl) THEN CleanFrom(block, i + 1, inside_def, Append(cleaned, bl))
         ELSE IF IsSectionMarker(bl) THEN cleaned
         ELSE CleanFrom(block, i + 1, inside_def, cleaned)

cleaned_block(block) == CleanFrom(block, 1, FALSE, <<>>)

\* Per-line facts the two acceptance patterns depend on.
\* The line alone matches clex\w*\s+assert or assert\s+.*expr (IGNORECASE).
MatchesAlone(l) == l.k = "assertexpr"
\* The line ends with "assert" (so that \s+ can run over the line break).
EndsWithAssert(l) == FALSE
\* The line contains "expr".
HasExpr(l) == l.k = "assertexpr"
\* The line ends with clex\w*.
EndsWithClexWord(l) == l.v \in ClexValues
\* The line starts with "assert".
StartsWithAssert(l) == l.k \in {"assertexpr", "assertonly"}

\* re.search(r'clex\w*\s+assert', block_text, re.IGNORECASE) or
\* re.search(r'assert\s+.*expr', block_text, re.IGNORECASE) on the joined text:
\* a match lies in one line or runs over one line break.
Accepts(text) ==
    \/ \E i \in 1..Len(text) : MatchesAlone(text[i])
    \/ \E i \in 1..(Len(text) - 1) :
          \/ EndsWithClexWord(text[i]) /\ StartsWithAssert(text[i + 1])
          \/ EndsWithAssert(text[i]) /\ HasExpr(text[i + 1])

\* devices[tech] = value
Assign(dict, key, value) ==
    [t \in (DOMAIN dict) \cup {key} |-> IF t = key THEN value ELSE dict[t]]

\* Variant of AddTokens that appends every token.
RECURSIVE AddTokens_All(_, _, _)
AddTokens_All(list, toks, i) ==
    IF i > Len(toks) THEN list ELSE AddTokens_All(Append(list, toks[i]), toks, i + 1)

\* The device-list loop: append each non-empty token not yet in the list.
RECURSIVE AddTokens(_, _, _)
AddTokens(list, toks, i) ==
    IF i > Len(toks) THEN list
    ELSE LET device == toks[i] IN
         AddTokens(IF device # "" /\ \A j \in 1..Len(list) : list[j] # device
                   THEN Append(list, device) ELSE list,
                   toks, i + 1)

\* "Make sure the device is in our list": devices after a definition is emitted.
Registered(dict, dev, tech) ==
    IF tech \in DOMAIN dict /\ \A j \in 1..Len(dict[tech]) : dict[tech][j] # dev
    THEN Assign(dict, tech, Append(dict[tech], dev))
    ELSE dict

\* Variant of BlockGuard that does not ask for a folder path.
BlockGuard_NoFolder(dev, tech, folder, file) ==
    Truthy(dev) /\ Truthy(tech) /\ Truthy(file)

\* Variant of BlockGuard that does not ask for a technology.
BlockGuard_NoTech(dev, tech, folder, file) ==
    Truthy(dev) /\ Truthy(folder) /\ Truthy(file)

\* The guard of the block processing at a blank line or before the next block.
BlockGuard(dev, tech, folder, file) ==
    Truthy(dev) /\ Truthy(tech) /\ Truthy(folder) /\ Truthy(file)

\* The definition tuple appended to clex_definitions.
Definition(dev, tech, folder, file, text) ==
    [device |-> dev, tech |-> tech, folder_path |-> folder, file_name |-> file, text |-> text]

\* --- the input language -------------------------------------------------
\* Number of "inline subckt" lines of a prefix.
OpenCount(seq) == Cardinality({i \in 1..Len(seq) : inline_match(seq[i])})

\* Index of the last "inline subckt" line of a prefix, 0 if none.
LastOpen(seq) ==
    IF \E i \in 1..Len(seq) : inline_match(seq[i])
    THEN CHOOSE i \in 1..Len(seq) : inline_match(seq[i]) /\ \A j \in (i + 1)..Len(seq) : ~inline_match(seq[j])
    ELSE 0

\* The prefix ends inside a block: after an opening line with no blank line since.
InsideBlock(seq) ==
    /\ LastOpen(seq) > 0
    /\ \A j \in (LastOpen(seq) + 1)..Len(seq) : ~IsBlank(seq[j])

\* Position i of seq lies outside every block (headings do not count).
IsOutsideAt(seq, i) ==
    /\ seq[i].k \notin {"tech", "devlist", "open", "blank"}
    /\ ~InsideBlock(SubSeq(seq, 1, i - 1))

\* The lines that may follow the prefix seq in an input.
NextLines(seq) ==
    IF Len(seq) >= MaxLines THEN {}
    ELSE (IF seq = <<>> THEN {Line("tech", t) : t \in TechNames} ELSE {})
         \cup (IF Len(seq) = 1 /\ seq[1].k = "tech"
               THEN {Line("devlist", x) : x \in DeviceListTexts} ELSE {})
         \cup (IF OpenCount(seq) < Len(DeviceOrder)
               THEN {Line("open", DeviceOrder[OpenCount(seq) + 1])} ELSE {})
         \cup (IF InsideBlock(seq)
               THEN {l \in BlockLines \cup {Line("blank", "")} :
                        \A j \in (LastOpen(seq) + 1)..Len(seq) : seq[j] # l}
               ELSE {l \in OutsideLines :
                        \A i \in 1..Len(seq) : IsOutsideAt(seq, i) => seq[i] # l})

FirstLines == NextLines(<<>>)

ParseInit ==
    /\ lines \in {<<l>> : l \in FirstLines}
    /\ line_index = 0
    /\ pc = "scan"
    /\ technologies = <<>> /\ devices = <<>> /\ clex_definitions = <<>>
    /\ current_tech = "None" /\ current_tech_version = "None" /\ current_tech_path = "None"
    /\ current_device = "None" /\ current_device_tech = "None"
    /\ in_device_block = FALSE /\ current_block = <<>>
    /\ current_folder_path = "None" /\ current_file_name = "None"
    /\ block_start = 0 /\ def_src = <<>>
    /\ history = <<>> /\ current_index = -1 /\ max_history = 1
    /\ store = [rows |-> [d \in DeviceIds |-> <<>>], flag |-> [d \in DeviceIds |-> FALSE]]
    /\ next_uid = 1
    /\ last = [op |-> "init", ret |-> "None", uid |-> 0, i0 |-> -1, n0 |-> 0]
    /\ pre = store /\ post = store /\ phase = "exec" /\ base = store

\* One iteration of the while loop on lines[line_index]; nxt is the line
\* after it (EOF when it is the last line of the input).
ScanLine(nxt) ==
    /\ pc = "scan"
    /\ LET line  == lines[line_index + 1]
           path1 == IF tech_match(line) THEN line.v ELSE current_tech_path
           tech1 == IF tech_name_match(line) THEN line.v ELSE current_tech
           ver1  == IF tech_name_match(line) THEN version_match(path1) ELSE current_tech_version
           devs1 == IF tech_name_match(line) THEN Assign(devices, tech1, <<>>) ELSE devices
           devs2 == IF devices_match(line) /\ Truthy(tech1)
                    THEN Assign(devs1, tech1, AddTokens(devs1[tech1], Split(line.v), 1))
                    ELSE devs1
           block1 == Append(current_block, line)
           closes == IsBlank(line) \/ (nxt # EOF /\ inline_match(nxt))
           text  == cleaned_block(block1)
           emits == /\ BlockGuard(current_device, current_device_tech,
                                  current_folder_path, current_file_name)
                    /\ Accepts(text)
       IN
       /\ current_tech_path' = path1
       /\ current_tech' = tech1
       /\ current_tech_version' = ver1
       /\ technologies' = IF tech_name_match(line)
                          THEN Append(technologies, <<tech1, ver1, path1>>)
                          ELSE technologies
       /\ IF inline_match(line)
          THEN /\ current_device' = line.v
               /\ current_device_tech' = tech1
               /\ in_device_block' = TRUE
               /\ current_block' = <<line>>
               /\ current_folder_path' = "None"
               /\ current_file_name' = "None"
               /\ block_start' = line_index + 1
               /\ devices' = devs2
               /\ UNCHANGED <<clex_definitions, def_src>>
          ELSE IF line.k = "folder" /\ in_device_block
          THEN /\ current_folder_path' = line.v
               /\ current_block' = block1
               /\ devices' = devs2
               /\ UNCHANGED <<current_device, current_device_tech, in_device_block,
                              current_file_name, block_start, clex_definitions, def_src>>
          ELSE IF line.k = "file" /\ in_device_block
          THEN /\ current_file_name' = line.v
               /\ current_block' = block1
               /\ devices' = devs2
               /\ UNCHANGED <<current_device, current_device_tech, in_device_block,
                              current_folder_path, block_start, clex_definitions, def_src>>
          ELSE IF in_device_block
          THEN IF closes
               THEN /\ clex_definitions' =
                          IF emits
                          THEN Append(clex_definitions,
                                      Definition(current_device, current_device_tech,
                                                 current_folder_path, current_file_name, text))
                          ELSE clex_definitions
                    /\ def_src' = IF emits
                                  THEN Append(def_src, [open |-> block_start, close |-> line_index + 1])
                                  ELSE def_src
                    /\ devices' = IF emits
                                  THEN Registered(devs2, current_device, current_device_tech)
                                  ELSE devs2
                    /\ in_device_block' = FALSE
                    /\ current_block' = <<>>
                    /\ UNCHANGED <<current_device, current_device_tech,
                                   current_folder_path, current_file_name, block_start>>
               ELSE /\ current_block' = block1
                    /\ devices' = devs2
                    /\ UNCHANGED <<current_device, current_device_tech, in_device_block,
                                   current_folder_path, current_file_name, block_start,
                                   clex_definitions, def_src>>
          ELSE /\ devices' = devs2
               /\ UNCHANGED <<current_device, current_device_tech, in_device_block,
                              current_block, current_folder_path, current_file_name,
                              block_start, clex_definitions, def_src>>
    /\ line_index' = line_index + 1
    /\ IF nxt = EOF
       THEN lines' = lines /\ pc' = "final"
       ELSE lines' = Append(lines, nxt) /\ pc' = "scan"
    /\ UNCHANGED cmvars

\* The loop body on a line that is followed by another line.
ScanLineStep == \E nxt \in NextLines(lines) : ScanLine(nxt)

\* Variant of ScanLastLine that leaves the loop without reading the last line.
ScanLastLine_Early ==
    /\ pc = "scan"
    /\ pc' = "final"
    /\ UNCHANGED <<lines, line_index, technologies, devices, clex_definitions,
                   current_tech, current_tech_version, current_tech_path,
                   current_device, current_device_tech, in_device_block, current_block,
                   current_folder_path, current_file_name, block_start, def_src>>
    /\ UNCHANGED cmvars

\* The loop body on the last line of the input.
ScanLastLine == ScanLine(EOF)

\* "Check for any final block", after the loop; then the function returns.
FinalBlock ==
    /\ pc = "final"
    /\ LET text  == cleaned_block(current_block)
           emits == /\ in_device_block /\ Truthy(current_device) /\ Truthy(current_device_tech)
                    /\ Truthy(current_folder_path) /\ Truthy(current_file_name)
                    /\ Accepts(text)
       IN
       /\ clex_definitions' =
             IF emits
             THEN Append(clex_definitions,
                         Definition(current_device, current_device_tech,
                                    current_folder_path, current_file_name, text))
             ELSE clex_definitions
       /\ def_src' = IF emits
                     THEN Append(def_src, [open |-> block_start, close |-> Len(lines)])
                     ELSE def_src
    /\ pc' = "done"
    /\ UNCHANGED <<lines, line_index, technologies, devices,
                   current_tech, current_tech_version, current_tech_path,
                   current_device, current_device_tech, in_device_block, current_block,
                   current_folder_path, current_file_name, block_start>>
    /\ UNCHANGED cmvars

ParseNext ==
    \/ ScanLineStep
    \/ ScanLastLine
    \/ FinalBlock

ParseSpec == ParseInit /\ [][ParseNext]_vars

(* ----------------- parse_log_file as a function of its input ----------- *)
\* The locals of parse_log_file before the loop.
LocalsInit ==
    [technologies |-> <<>>, devices |-> <<>>, clex_definitions |-> <<>>,
     current_tech |-> "None", current_tech_version |-> "None", current_tech_path |-> "None",
     current_device |-> "None", current_device_tech |-> "None",
     in_device_block |-> FALSE, current_block |-> <<>>,
     current_folder_path |-> "None", current_file_name |-> "None",
     block_start |-> 0, def_src |-> <<>>]

\* One iteration of the while loop, on seq[i], from the locals st.
LoopBody(st, seq, i) ==
    LET line  == seq[i]
        path1 == IF tech_match(line) THEN line.v ELSE st.current_tech_path
        tech1 == IF tech_name_match(line) THEN line.v ELSE st.current_tech
        ver1  == IF tech_name_match(line) THEN version_match(path1) ELSE st.current_tech_version
        devs1 == IF tech_name_match(line) THEN Assign(st.devices, tech1, <<>>) ELSE st.devices
        devs2 == IF devices_match(line) /\ Truthy(tech1)
                 THEN Assign(devs1, tech1, AddTokens(devs1[tech1], Split(line.v), 1))
                 ELSE devs1
        s1    == [st EXCEPT !.current_tech_path = path1,
                            !.current_tech = tech1,
                            !.current_tech_version = ver1,
                            !.technologies = IF tech_name_match(line)
                                             THEN Append(@, <<tech1, ver1, path1>>) ELSE @,
                            !.devices = devs2]
        block1 == Append(st.current_block, line)
        closes == IsBlank(line) \/ (i < Len(seq) /\ inline_match(seq[i + 1]))
        text  == cleaned_block(block1)
        emits == /\ BlockGuard(st.current_device, st.current_device_tech,
                               st.current_folder_path, st.current_file_name)
                 /\ Accepts(text)
    IN
    IF inline_match(line)
    THEN [s1 EXCEPT !.current_device = line.v,
                    !.current_device_tech = tech1,
                    !.in_device_block = TRUE,
                    !.current_block = <<line>>,
                    !.current_folder_path = "None",
                    !.current_file_name = "None",
                    !.block_start = i]
    ELSE IF line.k = "folder" /\ st.in_device_block
    THEN [s1 EXCEPT !.current_folder_path = line.v, !.current_block = block1]
    ELSE IF line.k = "file" /\ st.in_device_block
    THEN [s1 EXCEPT !.current_file_name = line.v, !.current_block = block1]
    ELSE IF st.in_device_block
    THEN IF closes
         THEN [s1 EXCEPT !.clex_definitions =
                             IF emits
                             THEN Append(@, Definition(st.current_device, st.current_device_tech,
                                                       st.current_folder_path, st.current_file_name,
                                                       text))
                             ELSE @,
                         !.def_src = IF emits
                                     THEN Append(@, [open |-> st.block_start, close |-> i])
                                     ELSE @,
                         !.devices = IF emits
                                     THEN Registered(devs2, st.current_device, st.current_device_tech)
                                     ELSE devs2,
                         !.in_device_block = FALSE,
                         !.current_block = <<>>]
         ELSE [s1 EXCEPT !.current_block = block1]
    ELSE s1

\* The while loop from line i on.
RECURSIVE WhileLoop(_, _, _)
WhileLoop(st, seq, i) ==
    IF i > Len(seq) THEN st ELSE WhileLoop(LoopBody(st, seq, i), seq, i + 1)

\* "Check for any final block" on the locals st after a loop over n lines.
FinalCheck(st, n) ==
    LET text  == cleaned_block(st.current_block)
        emits == /\ st.in_device_block
                 /\ Truthy(st.current_device) /\ Truthy(st.current_device_tech)
                 /\ Truthy(st.current_folder_path) /\ Truthy(st.current_file_name)
                 /\ Accepts(text)
    IN IF emits
       THEN [st EXCEPT !.clex_definitions =
                           Append(@, Definition(st.current_device, st.current_device_tech,
                                                st.current_folder_path, st.current_file_name, text)),
                       !.def_src = Append(@, [open |-> st.block_start, close |-> n])]
       ELSE st

\* parse_log_file(log_content), seq being log_content.split('\n'): the locals
\* at the return statement.
parse_log_file(seq) == FinalCheck(WhileLoop(LocalsInit, seq, 1), Len(seq))

(* ---------------------------- create_database -------------------------- *)
\* tech_id_map[name]: the id SELECT ... WHERE name = ? fetches, the first row
\* of that name; 0 stands for a name without a row (tech_id_map.get -> None).
tech_id_map(techs, name) ==
    IF \E i \in 1..Len(techs) : techs[i][1] = name
    THEN CHOOSE i \in 1..Len(techs) :
             techs[i][1] = name /\ \A j \in 1..(i - 1) : techs[j][1] # name
    ELSE 0

\* devices_with_clex.get(tech, set()): the device names with a definition.
devices_with_clex(defs, tech) ==
    {defs[k].device : k \in {k \in 1..Len(defs) : defs[k].tech = tech}}

\* The keys of devices_dict in insertion order: a key is inserted by the
\* first "Technology:" line of its name.
RECURSIVE DictKeys(_, _, _)
DictKeys(techs, i, keys) ==
    IF i > Len(techs) THEN keys
    ELSE DictKeys(techs, i + 1,
                  IF \E j \in 1..Len(keys) : keys[j] = techs[i][1]
                  THEN keys ELSE Append(keys, techs[i][1]))

\* "Insert devices": one row per name of each technology's list, flagged when
\* the name is in devices_with_clex of the technology.
RECURSIVE InsertDevices(_, _, _, _, _, _)
InsertDevices(techs, devices_dict, defs, keys, i, rows) ==
    IF i > Len(keys) THEN rows
    ELSE LET tech_name == keys[i]
             tech_id   == tech_id_map(techs, tech_name)
             list      == devices_dict[tech_name]
             added     == [j \in 1..Len(list) |->
                              [name |-> list[j], technology_id |-> tech_id,
                               has_clex_definition |-> list[j] \in devices_with_clex(defs, tech_name)]]
         IN InsertDevices(techs, devices_dict, defs, keys, i + 1,
                          IF tech_id = 0 THEN rows ELSE rows \o added)

\* device_id_map.get((device_name, tech_id)): the id of the last inserted row
\* of that name and technology, 0 without one.
device_id_map(rows, device_name, tech_id) ==
    IF \E i \in 1..Len(rows) : rows[i].name = device_name /\ rows[i].technology_id = tech_id
    THEN CHOOSE i \in 1..Len(rows) :
             /\ rows[i].name = device_name /\ rows[i].technology_id = tech_id
             /\ \A j \in (i + 1)..Len(rows) :
                   ~(rows[j].name = device_name /\ rows[j].technology_id = tech_id)
    ELSE 0

\* Variant of InsertDefinitions that gives up at the first definition without
\* a device row.
RECURSIVE InsertDefinitions_Abort(_, _, _, _, _)
InsertDefinitions_Abort(techs, rows, defs, k, out) ==
    IF k > Len(defs) THEN out
    ELSE LET tech_id   == tech_id_map(techs, defs[k].tech)
             device_id == IF tech_id = 0 THEN 0
                          ELSE device_id_map(rows, defs[k].device, tech_id)
         IN IF device_id = 0 THEN out
            ELSE InsertDefinitions_Abort(techs, rows, defs, k + 1,
                     Append(out, [device_id |-> device_id,
                                  folder_path |-> defs[k].folder_path,
                                  file_name |-> defs[k].file_name,
                                  definition_text |-> defs[k].text]))

\* "Insert CLEX definitions": one row per definition whose technology and
\* device have a row.
RECURSIVE InsertDefinitions(_, _, _, _, _)
InsertDefinitions(techs, rows, defs, k, out) ==
    IF k > Len(defs) THEN out
    ELSE LET tech_id   == tech_id_map(techs, defs[k].tech)
             device_id == IF tech_id = 0 THEN 0
                          ELSE device_id_map(rows, defs[k].device, tech_id)
         IN InsertDefinitions(techs, rows, defs, k + 1,
                IF device_id = 0 THEN out
                ELSE Append(out, [device_id |-> device_id,
                                  folder_path |-> defs[k].folder_path,
                                  file_name |-> defs[k].file_name,
                                  definition_text |-> defs[k].text]))

\* create_database(db_name, technologies, devices_dict, clex_definitions):
\* the three tables, a row's id being its position.
create_database(techs, devices_dict, defs) ==
    LET rows == InsertDevices(techs, devices_dict, defs, DictKeys(techs, 1, <<>>), 1, <<>>) IN
    [technologies     |-> techs,
     devices          |-> rows,
     clex_definitions |-> InsertDefinitions(techs, rows, defs, 1, <<>>)]

(* --------------------------- process_log_file -------------------------- *)
\* A log holding two blocks of the same device, a device list, a section
\* marker inside a block and a technology declaration inside a block.
SampleLog ==
    << Line("tech", "FOO"),
       Line("devlist", "dev1, dev2"),
       Line("open", "dev1"),
       Line("folder", "/x"),
       Line("file", "f.clex"),
       Line("assertexpr", ""),
       Line("blank", ""),
       Line("open", "dev1"),
       Line("folder", "/x"),
       Line("file", "f.clex"),
       Line("searching", "/lib"),
       Line("searching", "/lib/clex"),
       Line("assertexpr", ""),
       Line("tech", "FOO"),
       Line("folder", "/y"),
       Line("blank", "") >>

\* The lines of SampleLog at the positions S, in their order.
Pick(S) ==
    [k \in 1..Cardinality(S) |->
        SampleLog[CHOOSE j \in S : Cardinality({x \in S : x < j}) = k - 1]]

\* The input logs: SampleLog with any of its lines left out.
LogInputs == {Pick(S) : S \in (SUBSET (1..Len(SampleLog))) \ {{}}}

LoadInit ==
    /\ lines \in LogInputs
    /\ line_index = 0
    /\ pc = "read"
    /\ technologies = <<>> /\ devices = <<>> /\ clex_definitions = <<>>
    /\ current_tech = "None" /\ current_tech_version = "None" /\ current_tech_path = "None"
    /\ current_device = "None" /\ current_device_tech = "None"
    /\ in_device_block = FALSE /\ current_block = <<>>
    /\ current_folder_path = "None" /\ current_file_name = "None"
    /\ block_start = 0 /\ def_src = <<>>
    /\ history = <<>> /\ current_index = -1 /\ max_history = 1
    /\ store = [technologies |-> <<>>, devices |-> <<>>, clex_definitions |-> <<>>]
    /\ next_uid = 1
    /\ last = [op |-> "init", ret |-> "None", uid |-> 0, i0 |-> -1, n0 |-> 0]
    /\ pre = "None" /\ post = "None" /\ phase = "off" /\ base = "None"

\* parse_log_file(log_content) inside process_log_file.
ParseLogFile ==
    /\ pc = "read"
    /\ LET st == parse_log_file(lines) IN
       /\ technologies' = st.technologies
       /\ devices' = st.devices
       /\ clex_definitions' = st.clex_definitions
       /\ current_tech' = st.current_tech
       /\ current_tech_version' = st.current_tech_version
       /\ current_tech_path' = st.current_tech_path
       /\ current_device' = st.current_device
       /\ current_device_tech' = st.current_device_tech
       /\ in_device_block' = st.in_device_block
       /\ current_block' = st.current_block
       /\ current_folder_path' = st.current_folder_path
       /\ current_file_name' = st.current_file_name
       /\ block_start' = st.block_start
       /\ def_src' = st.def_src
    /\ line_index' = Len(lines)
    /\ pc' = "parsed"
    /\ UNCHANGED lines
    /\ UNCHANGED cmvars

\* create_database(db_name, technologies, devices, clex_definitions) inside
\* process_log_file.
CreateDatabase ==
    /\ pc = "parsed"
    /\ store' = create_database(technologies, devices, clex_definitions)
    /\ pc' = "loaded"
    /\ UNCHANGED <<history, current_index, max_history, next_uid, last, pre, post, phase, base>>
    /\ UNCHANGED <<lines, line_index, technologies, devices, clex_definitions,
                   current_tech, current_tech_version, current_tech_path,
                   current_device, current_device_tech, in_device_block, current_block,
                   current_folder_path, current_file_name, block_start, def_src>>

LoadNext ==
    \/ ParseLogFile
    \/ CreateDatabase

LoadSpec == LoadInit /\ [][LoadNext]_vars

(* ------------------- create_database on any arguments ------------------ *)
\* Longest clex_definitions list passed to create_database.
MaxDefs == 2

\* The technologies lists passed to create_database: up to two entries.
TechRows == {<<"FOO", "None", "None">>, <<"BAR", "None", "None">>}

TechLists == {<<>>} \cup {<<a>> : a \in TechRows} \cup {<<a, b>> : a \in TechRows, b \in TechRows}

\* The device lists of devices_dict: up to two names.
DeviceNames == {"dev1", "dev2"}

DeviceLists ==
    {<<>>} \cup {<<a>> : a \in DeviceNames} \cup {<<a, b>> : a \in DeviceNames, b \in DeviceNames}

\* The definition tuples: any device of any technology, two folder paths.
DefinitionTuples ==
    {Definition(dev, tech, folder, "f.clex", <<Line("open", dev), Line("assertexpr", "")>>) :
        dev \in DeviceNames, tech \in {"FOO", "BAR"}, folder \in {"/x", "/y"}}

DefinitionLists == UNION {[1..n -> DefinitionTuples] : n \in 0..MaxDefs}

\* create_database called with any technologies, a devices_dict keyed by the
\* technology names, and any clex_definitions.
CreateInit ==
    /\ lines = <<>>
    /\ line_index = 0
    /\ pc = "parsed"
    /\ technologies \in TechLists
    /\ devices \in [{technologies[i][1] : i \in 1..Len(technologies)} -> DeviceLists]
    /\ clex_definitions \in DefinitionLists
    /\ current_tech = "None" /\ current_tech_version = "None" /\ current_tech_path = "None"
    /\ current_device = "None" /\ current_device_tech = "None"
    /\ in_device_block = FALSE /\ current_block = <<>>
    /\ current_folder_path = "None" /\ current_file_name = "None"
    /\ block_start = 0 /\ def_src = <<>>
    /\ history = <<>> /\ current_index = -1 /\ max_history = 1
    /\ store = [technologies |-> <<>>, devices |-> <<>>, clex_definitions |-> <<>>]
    /\ next_uid = 1
    /\ last = [op |-> "init", ret |-> "None", uid |-> 0, i0 |-> -1, n0 |-> 0]
    /\ pre = "None" /\ post = "None" /\ phase = "off" /\ base = "None"

CreateNext == CreateDatabase

CreateSpec == CreateInit /\ [][CreateNext]_vars

(* ---------------- parse_log_file on lines in any order ----------------- *)
\* Longest input, in lines, when every line may follow every line.
MaxAny == 4

\* One line of each kind.
AnyLines ==
    {Line("tech", "FOO"), Line("latestdir", "/pdk/v1.2"), Line("devlist", "dev1, dev2"),
     Line("open", "dev1"), Line("folder", "/x"), Line("file", "f.clex"),
     Line("assertexpr", ""), Line("blank", ""), Line("note", "")}

ScanInit ==
    /\ lines \in {<<l>> : l \in AnyLines}
    /\ line_index = 0
    /\ pc = "scan"
    /\ technologies = <<>> /\ devices = <<>> /\ clex_definitions = <<>>
    /\ current_tech = "None" /\ current_tech_version = "None" /\ current_tech_path = "None"
    /\ current_device = "None" /\ current_device_tech = "None"
    /\ in_device_block = FALSE /\ current_block = <<>>
    /\ current_folder_path = "None" /\ current_file_name = "None"
    /\ block_start = 0 /\ def_src = <<>>
    /\ history = <<>> /\ current_index = -1 /\ max_history = 1
    /\ store = [technologies |-> <<>>, devices |-> <<>>, clex_definitions |-> <<>>]
    /\ next_uid = 1
    /\ last = [op |-> "init", ret |-> "None", uid |-> 0, i0 |-> -1, n0 |-> 0]
    /\ pre = "None" /\ post = "None" /\ phase = "off" /\ base = "None"

\* The loop body on a line that is followed by any other line.
ScanAnyLine ==
    \E nxt \in (IF Len(lines) < MaxAny THEN AnyLines ELSE {}) : ScanLine(nxt)

ScanNext ==
    \/ ScanAnyLine
    \/ ScanLastLine
    \/ FinalBlock

\* The function runs to its return statement: the loop and the final check
\* are sequential code without a blocking call.
ScanSpec == ScanInit /\ [][ScanNext]_vars /\ WF_vars(ScanNext)

(* --------------- parse_log_file on interleaved declarations ------------ *)
\* A log with two latest-directory lines, a technology declared inside a
\* block, a technology declared twice, and device lists with an empty token,
\* a repeated token and a token with surrounding blanks.
DeclLog ==
    << Line("latestdir", "/pdk/v1.2"),
       Line("tech", "FOO"),
       Line("devlist", "dev1, dev2"),
       Line("open", "dev1"),
       Line("folder", "/x"),
       Line("file", "f.clex"),
       Line("assertexpr", ""),
       Line("latestdir", "/pdk/v2.0"),
       Line("tech", "BAR"),
       Line("blank", ""),
       Line("devlist", "dev2, , dev2,  dev1"),
       Line("tech", "FOO"),
       Line("open", "dev2") >>

\* The position of DeclLog at which seq[i..] ends when seq[i], seq[i+1], ...
\* are found one after the other, each as early as possible after position p.
RECURSIVE EmbedFrom(_, _, _)
EmbedFrom(seq, i, p) ==
    IF i > Len(seq) THEN p
    ELSE EmbedFrom(seq, i + 1,
                   CHOOSE q \in (p + 1)..Len(DeclLog) :
                       DeclLog[q] = seq[i] /\ \A r \in (p + 1)..(q - 1) : DeclLog[r] # seq[i])

\* The lines that may follow seq in an input: the input logs are DeclLog with
\* any of its lines left out.
Following(seq) == {DeclLog[j] : j \in (EmbedFrom(seq, 1, 0) + 1)..Len(DeclLog)}

DeclInit ==
    /\ lines \in {<<DeclLog[j]>> : j \in 1..Len(DeclLog)}
    /\ line_index = 0
    /\ pc = "scan"
    /\ technologies = <<>> /\ devices = <<>> /\ clex_definitions = <<>>
    /\ current_tech = "None" /\ current_tech_version = "None" /\ current_tech_path = "None"
    /\ current_device = "None" /\ current_device_tech = "None"
    /\ in_device_block = FALSE /\ current_block = <<>>
    /\ current_folder_path = "None" /\ current_file_name = "None"
    /\ block_start = 0 /\ def_src = <<>>
    /\ history = <<>> /\ current_index = -1 /\ max_history = 1
    /\ store = [technologies |-> <<>>, devices |-> <<>>, clex_definitions |-> <<>>]
    /\ next_uid = 1
    /\ last = [op |-> "init", ret |-> "None", uid |-> 0, i0 |-> -1, n0 |-> 0]
    /\ pre = "None" /\ post = "None" /\ phase = "off" /\ base = "None"

\* The loop body on a line that is followed by a later line of DeclLog.
ScanDeclLine == \E nxt \in Following(lines) : ScanLine(nxt)

DeclNext ==
    \/ ScanDeclLine
    \/ ScanLastLine
    \/ FinalBlock

DeclSpec == DeclInit /\ [][DeclNext]_vars

(* ------------------------------ browser UI ----------------------------- *)
\* The main window's handlers that change definitions, over the same
\* CommandManager fields and store; the devices table holds the ids that are
\* in the domain of store.rows.  A change that a dialog writes directly to
\* the database is applied to base as well.
UiDeviceIds == {1, 2}

\* A database as an import leaves it: the devices of the log, each with at
\* most one definition row and the flag set exactly when it has one.
ImportedStores ==
    { [rows |-> r, flag |-> [d \in DeviceIds |-> r[d] # <<>>]]
      : r \in [DeviceIds -> {<<>>} \cup {<<x>> : x \in Payloads}] }

\* create_new_device_with_clex: INSERT a device row with the flag set and one
\* definition row for it; returns the new id (cursor.lastrowid).
create_new_device_with_clex(db, data) ==
    LET device_id == Cardinality(DOMAIN db.rows) + 1 IN
    [db  |-> [rows |-> Assign(db.rows, device_id, <<data>>),
              flag |-> Assign(db.flag, device_id, TRUE)],
     ret |-> device_id]

\* The devices the edit and delete handlers accept: selected, and
\* get_device_info(...)[2] == 1.
HasClexFlag(d) == d \in DOMAIN store.rows /\ store.flag[d]

UiInit ==
    /\ history = <<>>
    /\ current_index = -1
    /\ max_history \in 1..MaxHist
    /\ store \in ImportedStores
    /\ next_uid = 1
    /\ last = [op |-> "init", ret |-> "None", uid |-> 0, i0 |-> -1, n0 |-> 0]
    /\ pre = "None"
    /\ post = "None"
    /\ phase = "off"
    /\ base = store
    /\ ParserIdle

\* new_clex_definition: NewCLEXDialog.save_definition creates the device and
\* its definition directly through the database manager.
NewClexDefinition ==
    \E data \in Payloads :
        LET r == create_new_device_with_clex(store, data) IN
        /\ r.ret \in UiDeviceIds
        /\ store' = r.db
        /\ last' = [op |-> "ui_new", ret |-> "True", uid |-> 0,
                    i0 |-> current_index, n0 |-> Len(history)]
        /\ phase' = "off"
        /\ base' = create_new_device_with_clex(base, data).db
        /\ UNCHANGED <<history, current_index, max_history, next_uid, pre, post>>
        /\ UNCHANGED pvars

\* edit_clex_definition: EditCLEXDialog.save_definition with changed form
\* values calls update_clex_definition directly.
EditClexDefinition ==
    \E d \in DOMAIN store.rows : \E data \in Payloads :
        LET r == update_clex_definition(store, d, data) IN
        /\ HasClexFlag(d)
        /\ get_clex_definition(store, d) # "None"
        /\ get_clex_definition(store, d) # data
        /\ store' = r.db
        /\ last' = [op |-> "ui_edit", ret |-> IF r.ret THEN "True" ELSE "False", uid |-> 0,
                    i0 |-> current_index, n0 |-> Len(history)]
        /\ phase' = "off"
        /\ base' = update_clex_definition(base, d, data).db
        /\ UNCHANGED <<history, current_index, max_history, next_uid, pre, post>>
        /\ UNCHANGED pvars

\* delete_clex_definition: reads the definition, wraps the delete in a
\* DeleteClexDefinitionCommand and passes it to execute_command.
DeleteClexDefinition ==
    \E d \in DOMAIN store.rows :
        /\ HasClexFlag(d)
        /\ get_clex_definition(store, d) # "None"
        /\ ExecuteCommand(DeleteClexDefinitionCommand(next_uid, d, get_clex_definition(store, d)))

\* delete_clex_definition when the command's execute() raises; the handler
\* catches the exception and shows a message.
DeleteClexDefinitionRaises ==
    \E d \in DOMAIN store.rows :
        /\ HasClexFlag(d)
        /\ get_clex_definition(store, d) # "None"
        /\ ExecuteCommandRaises(DeleteClexDefinitionCommand(next_uid, d, get_clex_definition(store, d)))

\* Variant of ReloadClears that never clears.
ReloadClears_Never(success) == FALSE

\* on_database_reload_finished: "if success:" guards clear_history().
ReloadClears(success) == success

\* on_database_reload_finished(success, error_message), after the worker
\* replaced the database (success) or gave up (failure).
OnDatabaseReloadFinished ==
    \E success \in BOOLEAN : \E db \in (IF success THEN ImportedStores ELSE {store}) :
        /\ store' = db
        /\ IF ReloadClears(success)
           THEN history' = <<>> /\ current_index' = -1 /\ base' = db
           ELSE UNCHANGED <<history, current_index, base>>
        /\ last' = [op |-> "reload", ret |-> IF success THEN "True" ELSE "False", uid |-> 0,
                    i0 |-> current_index, n0 |-> Len(history)]
        /\ phase' = "off"
        /\ UNCHANGED <<max_history, next_uid, pre, post>>
        /\ UNCHANGED pvars

\* Variant of BulkDeleted that deletes the rows and leaves the flag.
BulkDeleted_KeepsFlag(db, done) ==
    [rows |-> [d \in DOMAIN db.rows |-> IF d \in done THEN <<>> ELSE db.rows[d]],
     flag |-> db.flag]

\* handle_delete_operation: DELETE the rows and clear the flag of every
\* selected device but those whose statements failed.
BulkDeleted(db, done) ==
    [rows |-> [d \in DOMAIN db.rows |-> IF d \in done THEN <<>> ELSE db.rows[d]],
     flag |-> [d \in DOMAIN db.flag |-> IF d \in done THEN FALSE ELSE db.flag[d]]]

\* on_bulk_operation_completed: the guard of clear_history().
BulkClears(operation_type, success_count) ==
    operation_type = "delete" /\ success_count > 0

\* BulkOperationsDialog's operation on a non-empty selection, then
\* on_bulk_operation_completed(operation_type, success_count).
OnBulkOperationCompleted ==
    \E operation_type \in {"delete", "export"} :
    \E selected \in (SUBSET (DOMAIN store.rows)) \ {{}} :
    \E failed \in SUBSET selected :
        LET done == selected \ failed
            success_count == IF operation_type = "delete" THEN Cardinality(done)
                                                          ELSE Cardinality(selected)
        IN
        /\ operation_type = "export" => failed = {}
        /\ store' = IF operation_type = "delete" THEN BulkDeleted(store, done) ELSE store
        /\ IF BulkClears(operation_type, success_count)
           THEN history' = <<>> /\ current_index' = -1 /\ base' = BulkDeleted(store, done)
           ELSE UNCHANGED <<history, current_index, base>>
        /\ last' = [op |-> IF operation_type = "delete" THEN "bulk_delete" ELSE "bulk_export",
                    ret |-> success_count, uid |-> 0,
                    i0 |-> current_index, n0 |-> Len(history)]
        /\ phase' = "off"
        /\ UNCHANGED <<max_history, next_uid, pre, post>>
        /\ UNCHANGED pvars

\* undo_operation and redo_operation call undo() and redo(); they have no
\* exception handler, and a database error inside them is left to Spec.
UiNext ==
    \/ NewClexDefinition
    \/ EditClexDefinition
    \/ DeleteClexDefinition
    \/ DeleteClexDefinitionRaises
    \/ UndoNothing
    \/ Undo
    \/ RedoNothing
    \/ Redo
    \/ OnDatabaseReloadFinished
    \/ OnBulkOperationCompleted

UiSpec == UiInit /\ [][UiNext]_vars

\* Number of commands executed between construction and the last call when
\* the writes to definitions are followed.
MaxFlagCmds == 2

\* A consistent database behind a new main window whose history has room
\* for MaxHist commands.
FlagInit ==
    /\ history = <<>>
    /\ current_index = -1
    /\ max_history = MaxHist
    /\ store \in ImportedStores
    /\ next_uid = 1
    /\ last = [op |-> "init", ret |-> "None", uid |-> 0, i0 |-> -1, n0 |-> 0]
    /\ pre = "None"
    /\ post = "None"
    /\ phase = "off"
    /\ base = store
    /\ ParserIdle

\* execute_command of an Add, Edit or Delete command, MaxFlagCmds times at most.
ExecuteWrite == next_uid <= MaxFlagCmds /\ ExecuteCommandCall

\* The operations that write definitions: the DatabaseManager methods called
\* by commands (execute, undo, redo) and by the dialogs, and the bulk delete.
FlagNext ==
    \/ ExecuteWrite
    \/ Undo
    \/ Redo
    \/ NewClexDefinition
    \/ EditClexDefinition
    \/ OnBulkOperationCompleted

FlagSpec == FlagInit /\ [][FlagNext]_vars

(* ----------------------- CommandManager properties --------------------- *)

\* C1: undo/redo round trip.  After a run of successful execute_command calls
\* from an empty history, undoing until can_undo() is false leaves the store
\* equal to its pre-sequence state (pre), and then redoing until can_redo() is
\* false leaves it equal to its post-sequence state (post).
C1_RoundTrip ==
    /\ (phase = "undo" /\ ~can_undo) => store = pre
    /\ (phase = "redo" /\ ~can_redo) => store = post

\* C2: redo-branch truncation.  A successful execute_command(C) from a state
\* with undone commands after the cursor leaves can_redo() false, none of the
\* undone commands in the history, C as last entry, and the entries at
\* positions 0..old current_index unchanged.
C2_RedoBranchTruncation ==
    [][ (last'.op = "execute" /\ last'.ret = "True" /\ current_index < Len(history) - 1)
        => /\ ~(current_index' < Len(history') - 1)
           /\ \A j \in (current_index + 2)..Len(history) :
                 \A k \in 1..Len(history') : history'[k].uid # history[j].uid
           /\ Len(history') > 0
           /\ history'[Len(history')].uid = last'.uid
           /\ \A j \in 1..(current_index + 1) :
                 j <= Len(history') /\ history'[j] = history[j] ]_vars

C2_Witness ==
    /\ last.op = "execute" /\ last.ret = "True"
    /\ last.i0 >= 0 /\ last.i0 < last.n0 - 1
    /\ Len(history) = last.i0 + 2

\* C3: a failed execute leaves the history untouched.  If command.execute()
\* returns False, execute_command returns False and history and current_index
\* are what they were before the call.
C3_FailedExecuteUntouched ==
    [][ (last'.op = "execute" /\ last'.ret = "False")
        => (history' = history /\ current_index' = current_index) ]_vars

\* C4: history capacity.  len(history) <= max_history always; a successful
\* execute keeps the newest max_history entries of (applied prefix + command)
\* in their order, with current_index at the just-executed command.
C4_Capacity ==
    /\ [](Len(history) <= max_history)
    /\ [][ (last'.op = "execute" /\ last'.ret = "True")
           => LET n == current_index + 2
                  m == Len(history')
              IN /\ m = (IF n > max_history THEN max_history ELSE n)
                 /\ current_index' = m - 1
                 /\ history'[m].uid = last'.uid
                 /\ \A k \in 1..(m - 1) : history'[k] = history[n - m + k] ]_vars

C4_Witness ==
    /\ last.op = "execute" /\ last.ret = "True"
    /\ max_history = 2
    /\ last.i0 + 2 > max_history
    /\ Len(history) = max_history /\ current_index = max_history - 1

\* C5: undo().  With current_index < 0 it returns None and changes nothing;
\* otherwise it calls undo() on exactly the command at current_index, and
\* only when that returns True decrements current_index and returns the
\* command's description; when it returns False it returns None and history
\* and current_index are unchanged.
C5_Undo ==
    [][ (last'.op = "undo" /\ last'.ret # "raised")
        => IF current_index < 0
           THEN /\ last'.ret = "None" /\ last'.uid = 0
                /\ UNCHANGED <<history, current_index, store>>
           ELSE LET command == At(history, current_index)
                    r == CommandUndo(command, store)
                IN /\ last'.uid = command.uid
                   /\ store' = r.db
                   /\ history' = history
                   /\ IF r.ret
                      THEN /\ current_index' = current_index - 1
                           /\ last'.ret = get_description(command)
                      ELSE /\ current_index' = current_index
                           /\ last'.ret = "None" ]_vars

C5_Witness ==
    /\ last.op = "undo" /\ last.ret = "None" /\ last.uid # 0
    /\ current_index = last.i0 /\ current_index >= 0

\* C6: redo().  With current_index at the last position it returns None and
\* changes nothing; otherwise it calls execute() on exactly the command at
\* current_index + 1; when that returns True current_index has advanced by
\* one and the description is returned; when it returns False redo returns
\* None and current_index and history are unchanged.
C6_Redo ==
    [][ (last'.op = "redo" /\ last'.ret # "raised")
        => IF ~(current_index < Len(history) - 1)
           THEN /\ last'.ret = "None" /\ last'.uid = 0
                /\ UNCHANGED <<history, current_index, store>>
           ELSE LET command == At(history, current_index + 1)
                    r == CommandExecute(command, store)
                IN /\ last'.uid = command.uid
                   /\ store' = r.db
                   /\ history' = history
                   /\ IF r.ret
                      THEN /\ current_index' = current_index + 1
                           /\ last'.ret = get_description(command)
                      ELSE /\ current_index' = current_index
                           /\ last'.ret = "None" ]_vars

C6_Witness ==
    /\ last.op = "redo" /\ last.ret = "None" /\ last.uid # 0
    /\ current_index = last.i0 /\ current_index < Len(history) - 1

(* --------------------------- parser properties ------------------------- *)
\* Last line of the block that opens at line o of the input seq: the first
\* blank line after o, else the line before the next opening line, else the
\* last line.
BlockEnd(seq, o) ==
    CHOOSE e \in o..Len(seq) :
        /\ \A j \in (o + 1)..e : ~inline_match(seq[j]) /\ (j < e => ~IsBlank(seq[j]))
        /\ \/ e = Len(seq)
           \/ (e > o /\ IsBlank(seq[e]))
           \/ inline_match(seq[e + 1])

Opens == {o \in 1..Len(lines) : inline_match(lines[o])}

\* A technology was declared before line o.
DeclaredBefore(o) == \E t \in 1..(o - 1) : tech_name_match(lines[t])

\* The block o..e has a line of kind k; with a non-empty value.
HasKind(o, e, k) == \E j \in (o + 1)..e : lines[j].k = k

HasValue(o, e, k) == \E j \in (o + 1)..e : lines[j].k = k /\ Truthy(lines[j].v)

\* The definitions emitted for the block that opened at line o.
DefsOf(o) == {k \in 1..Len(def_src) : def_src[k].open = o}

\* Definition k is made only of lines of the block o..e.
OwnLines(k, o, e) ==
    LET d == clex_definitions[k] IN
    /\ d.device = lines[o].v
    /\ \A i \in 1..Len(d.text) : \E j \in o..e : lines[j] = d.text[i]
    /\ \E j \in (o + 1)..e : lines[j].k = "folder" /\ lines[j].v = d.folder_path
    /\ \E j \in (o + 1)..e : lines[j].k = "file" /\ lines[j].v = d.file_name

\* The block o..e has a Folder Path line and a File Name line, all with
\* values, and a qualifying assertion line.
Complete(o, e) ==
    /\ HasValue(o, e, "folder") /\ HasValue(o, e, "file")
    /\ \A j \in (o + 1)..e : lines[j].k \in {"folder", "file"} => Truthy(lines[j].v)
    /\ \E j \in (o + 1)..e : MatchesAlone(lines[j])

\* C7: implicit block closure.  Two consecutive blocks A, B under a declared
\* technology with no blank line between them, each with a Folder Path line,
\* a File Name line and a qualifying assertion line, yield one definition for
\* A and one for B, each made only of lines of its own block.
C7_ImplicitClosure ==
    pc = "done" =>
    \A a \in Opens : \A b \in Opens :
        LET ea == BlockEnd(lines, a)
            eb == BlockEnd(lines, b)
        IN (/\ b = ea + 1 /\ ~IsBlank(lines[ea])
            /\ DeclaredBefore(a)
            /\ Complete(a, ea) /\ Complete(b, eb))
           => /\ Cardinality(DefsOf(a)) = 1
              /\ Cardinality(DefsOf(b)) = 1
              /\ \A k \in DefsOf(a) : OwnLines(k, a, ea)
              /\ \A k \in DefsOf(b) : OwnLines(k, b, eb)

\* The device names listed by the device-list lines of the input.
Listed ==
    UNION { {Split(lines[i].v)[j] : j \in 1..Len(Split(lines[i].v))}
            : i \in {i \in 1..Len(lines) : devices_match(lines[i])} }

\* C8: device auto-registration.  When parse returns, the device of every
\* definition that is in no device-list line is in its technology's device
\* list exactly once, however its block was closed.
C8_AutoRegistration ==
    pc = "done" =>
    \A k \in 1..Len(clex_definitions) :
        LET d == clex_definitions[k] IN
        d.device \notin Listed
        => /\ d.tech \in DOMAIN devices
           /\ Cardinality({j \in 1..Len(devices[d.tech]) : devices[d.tech][j] = d.device}) = 1

\* C9: a block without metadata is dropped.  Every definition comes from a
\* block (its opening line o up to its closing line c, with no other opening
\* line and no earlier blank line in between) that has, after o and up to c,
\* a Folder Path line and a File Name line with non-empty values, and carries
\* such values; lines before o or after c do not count.
C9_NoMetadataNoDefinition ==
    \A k \in 1..Len(clex_definitions) :
        LET d == clex_definitions[k]
            o == def_src[k].open
            c == def_src[k].close
        IN /\ o >= 1 /\ c <= Len(lines) /\ o < c
           /\ inline_match(lines[o]) /\ lines[o].v = d.device
           /\ \A j \in (o + 1)..c : ~inline_match(lines[j]) /\ (j < c => ~IsBlank(lines[j]))
           /\ \E j \in (o + 1)..c :
                 lines[j].k = "folder" /\ Truthy(lines[j].v) /\ lines[j].v = d.folder_path
           /\ \E j \in (o + 1)..c :
                 lines[j].k = "file" /\ Truthy(lines[j].v) /\ lines[j].v = d.file_name

\* A block with a file name and a qualifying assertion but no Folder Path
\* line of its own, opened after a Folder Path line, was closed without a
\* definition.
C9_Witness ==
    /\ pc = "done"
    /\ \E o \in Opens :
          LET e == BlockEnd(lines, o) IN
          /\ DeclaredBefore(o)
          /\ \E i \in 1..(o - 1) : lines[i].k = "folder" /\ Truthy(lines[i].v)
          /\ ~HasKind(o, e, "folder")
          /\ HasValue(o, e, "file")
          /\ \E j \in (o + 1)..e : MatchesAlone(lines[j])
          /\ DefsOf(o) = {}

\* The value of the last line of kind k in the block o..e, "None" without one.
LastValue(o, e, k) ==
    IF HasKind(o, e, k)
    THEN lines[CHOOSE j \in (o + 1)..e :
                 lines[j].k = k /\ \A i \in (j + 1)..e : lines[i].k # k].v
    ELSE "None"

\* C10: assertion-pattern gate.  When parse returns, a block under a declared
\* technology with folder and file metadata yields no definition when it has
\* no qualifying line, and exactly one definition when it has one.
C10_AssertionGate ==
    pc = "done" =>
    \A o \in Opens :
        LET e == BlockEnd(lines, o) IN
        (/\ DeclaredBefore(o)
         /\ Truthy(LastValue(o, e, "folder")) /\ Truthy(LastValue(o, e, "file")))
        => IF \E j \in (o + 1)..e : MatchesAlone(lines[j])
           THEN Cardinality(DefsOf(o)) = 1
           ELSE Cardinality(DefsOf(o)) = 0

\* The names of the technologies sequence.
TechnologyNames == [i \in 1..Len(technologies) |-> technologies[i][1]]

\* C11: the returned technologies sequence has one entry per distinct
\* technology name: every declared name is in it and no name is in it twice,
\* also when the same "Technology: X" line appears more than once.
C11_DistinctTechnologies ==
    pc = "loaded" =>
    /\ \A i \in 1..Len(lines) :
          tech_name_match(lines[i]) => \E j \in 1..Len(technologies) : TechnologyNames[j] = lines[i].v
    /\ \A i \in 1..Len(technologies) : \A j \in 1..Len(technologies) :
          TechnologyNames[i] = TechnologyNames[j] => i = j

\* C12: after parse followed by create_database, a device row has
\* has_clex_definition true if and only if exactly one clex_definitions row
\* references it: no device has two definition rows, no flagged device none.
C12_FlagIffOneDefinition ==
    pc = "loaded" =>
    \A i \in 1..Len(store.devices) :
        store.devices[i].has_clex_definition
        <=> Cardinality({k \in 1..Len(store.clex_definitions) :
                            store.clex_definitions[k].device_id = i}) = 1

\* The mutations of a definition made through the browser UI in the step:
\* a created device with its definition, a saved edit, a delete.
UiMutation ==
    \/ last'.op \in {"ui_new", "ui_edit"} /\ last'.ret = "True"
    \/ last'.op = "execute" /\ last'.ret = "True"

\* C13: every mutation of a definition made through the browser UI (create
\* new, edit, delete) goes through execute_command: right after a successful
\* UI mutation can_undo() is true, the command at current_index was recorded
\* by this mutation, and its undo() gives back the store as it was before.
C13_UiMutationsUndoable ==
    [][ UiMutation
        => /\ current_index' >= 0
           /\ current_index' < Len(history')
           /\ \A k \in 1..Len(history) : history[k].uid # At(history', current_index').uid
           /\ CommandUndo(At(history', current_index'), store').db = store ]_vars

ExampleLog == SubSeq(SampleLog, 1, 6)

\* The database the example must give.
ExampleDatabase ==
    [technologies     |-> << <<"FOO", "None", "None">> >>,
     devices          |-> << [name |-> "dev1", technology_id |-> 1, has_clex_definition |-> TRUE],
                             [name |-> "dev2", technology_id |-> 1, has_clex_definition |-> FALSE] >>,
     clex_definitions |-> << [device_id |-> 1, folder_path |-> "/x", file_name |-> "f.clex",
                              definition_text |-> << Line("open", "dev1"), Line("folder", "/x"),
                                                     Line("file", "f.clex"), Line("assertexpr", "") >>] >>]

\* C15: the example scenario.  "Technology: FOO", a device list dev1, dev2 and
\* the block of dev1 with Folder Path /x, File Name f.clex and an assertion
\* give one technology FOO, devices dev1 (flagged) and dev2 (not flagged) in
\* that order and one definition, for dev1 with /x and f.clex, whether or not
\* the input ends with a blank line.
C15_ExampleScenario ==
    (pc = "loaded" /\ lines \in {ExampleLog, Append(ExampleLog, Line("blank", ""))})
    => /\ store = ExampleDatabase
       /\ Len(technologies) = 1 /\ technologies[1][1] = "FOO"
       /\ devices["FOO"] = <<"dev1", "dev2">>
       /\ Len(clex_definitions) = 1
       /\ clex_definitions[1].device = "dev1"
       /\ clex_definitions[1].folder_path = "/x"
       /\ clex_definitions[1].file_name = "f.clex"

\* The example without a trailing blank line was parsed and loaded.
C15_Witness ==
    /\ pc = "loaded" /\ lines = ExampleLog
    /\ in_device_block
    /\ Len(store.clex_definitions) = 1

\* C16: parsing has no fatal path.  For lines in any mix and order (device
\* lists and block lines before any technology included) every iteration
\* reads the next line and advances line_index by one, the look-up
\* devices[current_tech] always finds its key, the loop ends when every line
\* was read, and the function returns.
C16_NoFatalPath ==
    /\ [](Truthy(current_tech) => current_tech \in DOMAIN devices)
    /\ [](line_index <= Len(lines))
    /\ [][pc = "scan" => (line_index < Len(lines) /\ line_index' = line_index + 1)]_vars
    /\ [](pc \in {"final", "done"} => line_index = Len(lines))
    /\ <>(pc = "done")

\* The function returned on an input that starts with a device list and an
\* unfinished block before any technology declaration.
C16_Witness ==
    /\ pc = "done" /\ line_index = Len(lines) /\ Len(lines) >= 3
    /\ lines[1].k = "devlist" /\ lines[2].k = "open" /\ lines[3].k = "folder"
    /\ technologies = <<>> /\ clex_definitions = <<>>

\* The first "Technology:" line inside the block that opens at line o, 0 if
\* the block has none.
FirstTechIn(o) ==
    LET T == {t \in (o + 1)..BlockEnd(lines, o) : tech_name_match(lines[t])} IN
    IF T = {} THEN 0 ELSE CHOOSE t \in T : \A u \in T : t <= u

\* C17: a technology declaration inside an open block closes the block first.
\* A definition of a block with a declaration at line t was closed before t,
\* and its folder path and file name are those of the lines before t.
C17_TechnologyClosesBlock ==
    pc = "loaded" =>
    \A o \in Opens :
        LET t == FirstTechIn(o) IN
        t # 0 =>
        \A k \in DefsOf(o) :
            /\ def_src[k].close < t
            /\ clex_definitions[k].folder_path = LastValue(o, t - 1, "folder")
            /\ clex_definitions[k].file_name = LastValue(o, t - 1, "file")

\* C18: end of input acts as an implicit blank line.  For an input that ends
\* with a block still open, parse returns the same technologies, devices and
\* definitions as parse of the input followed by one empty line.
C18_EndOfInputAsBlank ==
    (pc = "loaded" /\ in_device_block)
    => LET st == parse_log_file(Append(lines, Line("blank", ""))) IN
       /\ st.technologies = technologies
       /\ st.devices = devices
       /\ st.clex_definitions = clex_definitions

\* a is b with some elements left out.
RECURSIVE IsSubsequence(_, _)
IsSubsequence(a, b) ==
    IF a = <<>> THEN TRUE
    ELSE IF b = <<>> THEN FALSE
    ELSE IF Head(a) = Head(b) THEN IsSubsequence(Tail(a), Tail(b))
    ELSE IsSubsequence(a, Tail(b))

\* The first line after line o, up to line c, that starts with "Searching in"
\* or "Technology:"; c + 1 without one.
FirstMarker(o, c) ==
    LET M == {m \in (o + 1)..c : IsSectionMarker(lines[m])} IN
    IF M = {} THEN c + 1 ELSE CHOOSE m \in M : \A u \in M : m <= u

\* C19: the text of a definition holds no line at or after the first line of
\* its block that starts with "Searching in" or "Technology:", whatever else
\* that line contains; and every line of the text is the opening line, a
\* Folder Path / File Name line or a line containing "assert" or "clex".
C19_TextStopsAtMarker ==
    pc = "loaded" =>
    \A k \in 1..Len(clex_definitions) :
        LET o == def_src[k].open
            c == def_src[k].close
            text == clex_definitions[k].text
        IN /\ IsSubsequence(text, SubSeq(lines, o, FirstMarker(o, c) - 1))
           /\ \A i \in 1..Len(text) :
                 \/ text[i].k \in {"open", "folder", "file"}
                 \/ HasAssertOrClex(text[i])

\* C20: eviction and truncation happen only in execute_command.  A call of
\* undo() or redo(), whether it succeeds, fails or raises, leaves the history
\* sequence (length, elements, order) unchanged and moves current_index by at
\* most one.
C20_UndoRedoFrame ==
    [][ (last'.op \in {"undo", "redo"})
        => /\ history' = history
           /\ current_index' - current_index \in {-1, 0, 1} ]_vars

\* A redo that returned a description with a full history of two commands,
\* after an eviction, and the history still holds both.
C20_Witness ==
    /\ last.op = "redo" /\ last.ret \notin {"None", "raised"}
    /\ max_history = 2 /\ Len(history) = 2 /\ last.n0 = 2
    /\ next_uid > 3
    /\ current_index = last.i0 + 1

\* The definition d names a device that has a row under its technology.
InDeviceIdMap(d) ==
    \E i \in 1..Len(store.devices) :
        /\ store.devices[i].name = d.device
        /\ technologies[store.devices[i].technology_id][1] = d.tech

\* C21: referential inconsistency in the loader.  create_database inserts no
\* row for a definition whose (device name, technology) has no device row and
\* goes on: the clex_definitions table holds, in list order, one row for each
\* of the other definitions, with its folder path, file name and text and the
\* id of a device row of its device and technology.
C21_SkipsAndContinues ==
    pc = "loaded" =>
    LET kept == SelectSeq(clex_definitions, InDeviceIdMap) IN
    /\ Len(store.clex_definitions) = Len(kept)
    /\ \A k \in 1..Len(kept) :
          LET row == store.clex_definitions[k] IN
          /\ row.folder_path = kept[k].folder_path
          /\ row.file_name = kept[k].file_name
          /\ row.definition_text = kept[k].text
          /\ row.device_id \in 1..Len(store.devices)
          /\ store.devices[row.device_id].name = kept[k].device
          /\ technologies[store.devices[row.device_id].technology_id][1] = kept[k].tech

\* The load finished on a list whose first definition has no device row and
\* whose second has one: one row, for the second.
C21_Witness ==
    /\ pc = "loaded"
    /\ Len(clex_definitions) = 2
    /\ ~InDeviceIdMap(clex_definitions[1])
    /\ InDeviceIdMap(clex_definitions[2])
    /\ Len(store.clex_definitions) = 1
    /\ store.clex_definitions[1].folder_path = clex_definitions[2].folder_path

\* The names of a list.
Names(list) == {list[i] : i \in 1..Len(list)}

\* a is the beginning of b.
IsPrefix(a, b) == Len(a) <= Len(b) /\ SubSeq(b, 1, Len(a)) = a

\* The tokens of toks that a device-list line adds to the list old: those not
\* empty, not in old and not earlier in toks, in the order of toks.
FreshTokens(old, toks) ==
    LET F == {i \in 1..Len(toks) :
                 /\ toks[i] # "" /\ toks[i] \notin Names(old)
                 /\ \A j \in 1..(i - 1) : toks[j] # toks[i]}
    IN [k \in 1..Cardinality(F) |->
           toks[CHOOSE i \in F : Cardinality({j \in F : j < i}) = k - 1]]

LatestBefore(n) ==
    LET D == {j \in 1..n : lines[j].k = "latestdir"} IN
    IF D = {} THEN "None" ELSE lines[CHOOSE j \in D : \A i \in D : i <= j].v

\* The positions of the technology declarations scanned so far, in order.
Declared ==
    LET T == {i \in 1..line_index : lines[i].k = "tech"} IN
    [k \in 1..Cardinality(T) |-> CHOOSE i \in T : Cardinality({j \in T : j < i}) = k - 1]

\* C23: version derivation has no retroactive effect.  The entry recorded
\* for the declaration at line i holds the path of the latest-directory line
\* most recently seen up to line i and the version of that path (both null
\* if none was seen); no step changes an entry already recorded, and a step
\* that scans a line without a declaration leaves technologies as it was.
C23_NoRetroactiveVersion ==
    /\ [](/\ Len(technologies) = Len(Declared)
          /\ \A k \in 1..Len(Declared) :
                LET path == LatestBefore(Declared[k]) IN
                technologies[k] = <<lines[Declared[k]].v,
                                    IF path = "None" THEN "None" ELSE version_match(path),
                                    path>>)
    /\ [][ /\ IsPrefix(technologies, technologies')
           /\ (pc = "scan" /\ lines[line_index + 1].k # "tech")
              => technologies' = technologies ]_vars

\* FOO was declared after the first latest-directory line and the second one
\* was scanned later: FOO keeps version 1.2 and the first path.
C23_Witness ==
    /\ pc = "done"
    /\ current_tech_path = "/pdk/v2.0"
    /\ Len(technologies) >= 1
    /\ technologies[1] = <<"FOO", "1.2", "/pdk/v1.2">>
    /\ \E j \in 1..Len(lines) : lines[j] = Line("latestdir", "/pdk/v2.0")

\* C28: device lists only grow during a parse.  A name that is in a
\* technology's device list stays in that technology's list at every later
\* step of the scan and in the returned mapping, whatever line is scanned
\* (a repeated declaration of the technology included).
C28_ListsOnlyGrow ==
    [][ \A t \in DOMAIN devices :
           /\ t \in DOMAIN devices'
           /\ Names(devices[t]) \subseteq Names(devices'[t]) ]_vars

\* The technology current when line o is scanned: the name of the last
\* declaration before it, "None" without one.
TechAt(o) ==
    LET T == {i \in 1..(o - 1) : lines[i].k = "tech"} IN
    IF T = {} THEN "None" ELSE lines[CHOOSE i \in T : \A j \in T : j <= i].v

\* C29: definition attribution.  Every definition carries the technology
\* that was current when the opening line of its block was scanned, also
\* when another technology is declared before the block closes; and a block
\* opened before any declaration has no definition.
C29_Attribution ==
    /\ \A k \in 1..Len(clex_definitions) :
          /\ inline_match(lines[def_src[k].open])
          /\ TechAt(def_src[k].open) # "None"
          /\ clex_definitions[k].tech = TechAt(def_src[k].open)
    /\ \A o \in 1..Len(lines) :
          (inline_match(lines[o]) /\ TechAt(o) = "None") => DefsOf(o) = {}

\* A definition of technology FOO whose block holds the declaration of BAR,
\* the technology current at its close.
C29_Witness ==
    /\ pc = "done"
    /\ \E k \in 1..Len(clex_definitions) :
          /\ clex_definitions[k].tech = "FOO"
          /\ \E j \in (def_src[k].open + 1)..def_src[k].close : lines[j] = Line("tech", "BAR")
          /\ current_tech = "BAR"

\* C27: the parser's output is referentially closed.  After parse and
\* create_database, the technology of every parsed definition is a name of
\* the returned technologies, its device is in the returned device list of
\* that technology, and the clex_definitions table has a row for every
\* parsed definition (create_database skipped none).
C27_ReferentiallyClosed ==
    pc = "loaded" =>
    /\ \A k \in 1..Len(clex_definitions) :
          LET d == clex_definitions[k] IN
          /\ \E i \in 1..Len(technologies) : technologies[i][1] = d.tech
          /\ d.tech \in DOMAIN devices
          /\ d.device \in Names(devices[d.tech])
    /\ Len(store.clex_definitions) = Len(clex_definitions)

\* C24: cursor bounds.  In every state reached by execute_command, undo, redo
\* and clear_history in any order, with command operations that succeed,
\* return failure or raise, -1 <= current_index <= len(history) - 1; hence
\* history[current_index] exists when can_undo() and history[current_index + 1]
\* exists when can_redo().
C24_CursorBounds ==
    /\ -1 <= current_index
    /\ current_index <= Len(history) - 1
    /\ can_undo => (current_index + 1) \in DOMAIN history
    /\ can_redo => (current_index + 2) \in DOMAIN history

\* A redo raised on the last command of a history of two: the cursor was
\* advanced to the last position and stays there.
C24_Witness ==
    /\ last.op = "redo" /\ last.ret = "raised"
    /\ Len(history) = 2
    /\ last.i0 = 0
    /\ current_index = Len(history) - 1

\* C26: a failure signalled by an exception does not corrupt the cursor.
\* When the persistence call of a command raises during execute_command(),
\* undo() or redo(), history and current_index are, after the exception has
\* propagated, what they were before the call.
C26_RaiseLeavesCursor ==
    [][ (last'.ret = "raised" /\ last'.op \in {"execute", "undo", "redo"})
        => (history' = history /\ current_index' = current_index) ]_vars

\* The store db after execute() of the first n commands of h, in order.
RECURSIVE Applied(_, _, _)
Applied(db, h, n) ==
    IF n = 0 THEN db ELSE CommandExecute(h[n], Applied(db, h, n - 1)).db

\* C25: applied-prefix invariant.  When every command operation reports by
\* its return value, the store is in every reachable state the retained base
\* with the commands history[0..current_index] applied in that order: undo()
\* has reversed exactly the most recently applied command and redo() has
\* re-applied exactly the most recently undone one.
C25_AppliedPrefix ==
    store = Applied(base, history, current_index + 1)

====
